---- MODULE Spec2Model ----
(***************************************************************************)
(* Model of the tempo-scheduler pipeline of src/src/index.ts:              *)
(*   main -> getAuthenticatedClient -> getCalendarEvents                   *)
(*        -> getSchedulingSuggestions -> confirmation prompt               *)
(*        -> executeCalendarActions.                                       *)
(* One action per step of main between two awaits.  The external           *)
(* collaborators (file system, environment, Google calendar, the oracle,   *)
(* the operator at the prompt) are nondeterministic choices.               *)
(***************************************************************************)
EXTENDS Integers, Sequences, FiniteSets, TLC

VARIABLES
    pc,           \* position of main
    strategyFile, \* strategy.yaml exists beside the program
    credFile,     \* credentials.json exists in the working directory
    tokenFile,    \* token.json exists in the working directory
    apiKey,       \* process.env.ANTHROPIC_API_KEY is a non-empty string
    now,          \* the wall clock (new Date())
    calls,        \* the external calls made so far, in order, with their result
    events,       \* main's `events` (response.data.items of the list call)
    response,     \* the oracle's response as received by getSchedulingSuggestions
    suggestions,  \* main's `suggestions` (the value getSchedulingSuggestions returned)
    printed,      \* number of "Recommendation i: ..." lines main printed
    answer,       \* the operator's answer at the confirmation prompt
    idx,          \* position of the for-of loop of executeCalendarActions
    log,          \* the console lines executeCalendarActions wrote per recommendation
    returned,     \* what executeCalendarActions returned to main
    outcome,      \* how main ended
    error,        \* the error main's catch reported
    request,      \* the prompt payload getSchedulingSuggestions built
    calendar,     \* the events the insert calls have put on the calendar
    previous      \* the earlier run of the program, when this is a repeated run

vars == <<pc, strategyFile, credFile, tokenFile, apiKey, now, calls, events,
          response, suggestions, printed, answer, idx, log, returned, outcome,
          error, request, calendar, previous>>

---------------------------------------------------------------------------
(* Bounds of the model. *)

\* longest recommendations array the oracle returns
MaxRecs == 2
\* the clock stops advancing here
MaxClock == 1
\* most events the calendar list call returns
MaxEvents == 2

---------------------------------------------------------------------------
(* Values. *)

\* the three priorities and action types of interface CalendarRecommendation
Priorities == {"HIGH", "MEDIUM", "LOW"}
ActionTypes == {"CREATE", "MOVE", "DELETE"}

\* One element of suggestions.recommendations.  The parser returns whatever
\* JSON.parse produced, so an element is any JSON value:
\*   isNull     the element is null
\*   hasAction  the element has an object-valued calendarAction
\*   type       calendarAction.type
\*   hasDetails calendarAction.details is an object
\* startTime and endTime are instants (the ISO strings, ordered by time).
Rec(isNull, hasAction, priority, type, hasDetails, title, startTime, endTime) ==
    [isNull |-> isNull, hasAction |-> hasAction, priority |-> priority,
     type |-> type, hasDetails |-> hasDetails, title |-> title,
     startTime |-> startTime, endTime |-> endTime]

NullRec      == Rec(TRUE,  FALSE, "undefined", "undefined", FALSE, "undefined", 0, 0)
NoActionRec  == Rec(FALSE, FALSE, "HIGH", "undefined", FALSE, "undefined", 0, 0)
CreateRec    == Rec(FALSE, TRUE, "HIGH", "CREATE", TRUE, "Light workout", 1, 2)
UrgentRec    == Rec(FALSE, TRUE, "URGENT", "CREATE", TRUE, "Grooming", 2, 3)
EmptySlotRec == Rec(FALSE, TRUE, "MEDIUM", "CREATE", TRUE, "Book Club", 2, 2)
NoDetailsRec == Rec(FALSE, TRUE, "LOW", "CREATE", FALSE, "undefined", 0, 0)
MoveRec      == Rec(FALSE, TRUE, "LOW", "MOVE", TRUE, "Dinner", 3, 1)
DeleteRec    == Rec(FALSE, TRUE, "MEDIUM", "DELETE", TRUE, "Dinner", 1, 2)
ArchiveRec   == Rec(FALSE, TRUE, "HIGH", "ARCHIVE", TRUE, "Dinner", 1, 2)

RecUniverse == {NullRec, NoActionRec, CreateRec, UrgentRec, EmptySlotRec,
                NoDetailsRec, MoveRec, DeleteRec, ArchiveRec}

SeqsUpTo(S, n) == UNION {[1..k -> S] : k \in 0..n}

RecLists == SeqsUpTo(RecUniverse, MaxRecs)

\* An event of the calendar list call, with the fields the program reads:
\* summary, and start/end as {dateTime, date} (0: the field is undefined;
\* a timed event has dateTime, an all-day event has date).
EventUniverse == {[summary |-> "Dinner",
                   start |-> [dateTime |-> 1, date |-> 0],
                   end |-> [dateTime |-> 2, date |-> 0]]}
EventLists == SeqsUpTo(EventUniverse, MaxEvents)

\* response.data.items may be undefined (main: events ?? [])
NoItems == [defined |-> FALSE, items |-> <<>>]
Items(l) == [defined |-> TRUE, items |-> l]

\* The oracle's response.
\*   shape "nontext"  content[0].type is not 'text'
\*         "syntax"   JSON.parse('{' + text) raises
\*         "absent"   the decoded object has no field recommendations
\*         "falsy"    recommendations is null, false, 0 or ""
\*         "object"   recommendations is truthy and not an array
\*         "array"    recommendations is an array, recs
Shapes == {"nontext", "syntax", "absent", "falsy", "object", "array"}
Response(shape, recs) == [shape |-> shape, recs |-> recs]
NoResponse == Response("none", <<>>)
Responses == {Response(s, <<>>) : s \in Shapes \ {"array"}}
             \cup {Response("array", l) : l \in RecLists}

\* the prompt before it is built
NoRequest == [built |-> FALSE, time |-> 0, strategy |-> "none", events |-> <<>>]

\* no earlier run
NoPrevious == [defined |-> FALSE, response |-> NoResponse, calendar |-> <<>>]

\* no value of suggestions
NoSuggestions == [defined |-> FALSE, recommendations |-> <<>>]

\* the request body of calendar.events.insert
NoBody == [summary |-> "none", start |-> 0, end |-> 0, timeZone |-> "none",
           createdBy |-> "none", priority |-> "none", timestamp |-> 0]

\* an external call: the operation, whether it succeeded, the clock when it
\* ended, the index of the recommendation it was made for (0: none), its body
Call(op, ok, at, i, body) ==
    [op |-> op, ok |-> ok, at |-> at, idx |-> i, body |-> body]

\* what executeCalendarActions hands to main: the function is declared
\* Promise<void> and has no return statement, so once it is done no outcome
\* has reached the caller
NotReturned == [done |-> FALSE, report |-> <<>>]
Void        == [done |-> TRUE,  report |-> <<>>]

Answers == {"y", "Y", "n", "yes", ""}

\* String.prototype.toLowerCase on the answers of the model
toLowerCase(s) == IF s = "Y" THEN "y" ELSE s

---------------------------------------------------------------------------
Init ==
    /\ pc = "start"
    /\ strategyFile \in BOOLEAN
    /\ credFile \in BOOLEAN
    /\ tokenFile \in BOOLEAN
    /\ apiKey \in BOOLEAN
    /\ now = 0
    /\ calls = <<>>
    /\ events = NoItems
    /\ response = NoResponse
    /\ suggestions = NoSuggestions
    /\ printed = 0
    /\ answer = "none"
    /\ idx = 0
    /\ log = <<>>
    /\ returned = NotReturned
    /\ outcome = "running"
    /\ error = "none"
    /\ request = NoRequest
    /\ calendar = <<>>
    /\ previous = NoPrevious

\* time passes while main awaits
Later == {t \in now..MaxClock : t <= now + 1}

\* main's catch: console.error('Error:', error); main ends
\* (faulty variant: the error is not caught and leaves main)
FailEscapes(msg) ==
    /\ pc' = "crashed"
    /\ outcome' = "running"
    /\ error' = msg

Fail(msg) ==
    /\ pc' = "done"
    /\ outcome' = "error"
    /\ error' = msg

---------------------------------------------------------------------------
(* main, lines 287-290: load the policy file. *)
LoadStrategy ==
    /\ pc = "start"
    /\ IF strategyFile
         THEN /\ pc' = "auth"
              /\ UNCHANGED <<outcome, error>>
         ELSE Fail("ENOENT: strategy.yaml")
    /\ UNCHANGED <<strategyFile, credFile, tokenFile, apiKey, now, calls, events,
                   response, suggestions, printed, answer, idx, log, returned,
                   request, calendar, previous>>

(* getAuthenticatedClient, lines 13-35: credentials and the stored token. *)
GetAuthenticatedClient ==
    /\ pc = "auth"
    /\ IF ~credFile
         THEN Fail("credentials.json not found in project root")
         ELSE /\ pc' = IF tokenFile THEN "list" ELSE "token"
              /\ UNCHANGED <<outcome, error>>
    /\ UNCHANGED <<strategyFile, credFile, tokenFile, apiKey, now, calls, events,
                   response, suggestions, printed, answer, idx, log, returned,
                   request, calendar, previous>>

(* getAuthenticatedClient, lines 37-62: no stored token; the operator enters *)
(* the code, oAuth2Client.getToken exchanges it, the token is saved.         *)
ExchangeToken ==
    /\ pc = "token"
    /\ \E ok \in BOOLEAN, t \in Later :
         /\ now' = t
         /\ calls' = Append(calls, Call("getToken", ok, t, 0, NoBody))
         /\ IF ok
              THEN /\ tokenFile' = TRUE
                   /\ pc' = "list"
                   /\ UNCHANGED <<outcome, error>>
              ELSE /\ Fail("getToken failed")
                   /\ UNCHANGED tokenFile
    /\ UNCHANGED <<strategyFile, credFile, apiKey, events, response, suggestions,
                   printed, answer, idx, log, returned,
                   request, calendar, previous>>

(* getCalendarEvents, lines 68-81: the value main receives from the list    *)
(* call; the catch logs the error and throws it again.                       *)
\* (faulty variant: the catch logs and does not throw again)
GetCalendarEventsSwallow(ok, items) ==
    [threw |-> FALSE, value |-> IF ok THEN items ELSE NoItems]

GetCalendarEventsResult(ok, items) ==
    IF ok THEN [threw |-> FALSE, value |-> items]
          ELSE [threw |-> TRUE, value |-> NoItems]

(* getCalendarEvents, lines 65-82, and main, lines 294-295. *)
GetCalendarEvents ==
    /\ pc = "list"
    /\ \E ok \in BOOLEAN, items \in {NoItems} \cup {Items(l) : l \in EventLists},
          t \in Later :
         LET r == GetCalendarEventsResult(ok, items) IN
         /\ ok \/ items = NoItems
         /\ now' = t
         /\ calls' = Append(calls, Call("list", ok, t, 0, NoBody))
         /\ IF r.threw
              THEN /\ Fail("calendar.events.list failed")
                   /\ UNCHANGED events
              ELSE /\ events' = r.value
                   /\ pc' = "suggest"
                   /\ UNCHANGED <<outcome, error>>
    /\ UNCHANGED <<strategyFile, credFile, tokenFile, apiKey, response,
                   suggestions, printed, answer, idx, log, returned,
                   request, calendar, previous>>

(* getSchedulingSuggestions, lines 97-101: one entry per event, in the     *)
(* order of the list call: summary, and dateTime || date for start and end. *)
FormatEvents(evs) ==
    [i \in 1..Len(evs) |->
        [summary |-> evs[i].summary,
         start |-> IF evs[i].start.dateTime # 0 THEN evs[i].start.dateTime
                                                ELSE evs[i].start.date,
         end |-> IF evs[i].end.dateTime # 0 THEN evs[i].end.dateTime
                                            ELSE evs[i].end.date]]

(* getSchedulingSuggestions, lines 103-155: the prompt, made of the clock   *)
(* read at line 110, the policy (yaml.stringify(strategy)) and the          *)
(* formatted events; main passes events ?? [] (line 300).                   *)
BuildRequest(strategy, evs, t) ==
    [built |-> TRUE, time |-> t, strategy |-> strategy,
     events |-> FormatEvents(evs)]

(* getSchedulingSuggestions, lines 89-159: the key check, the request, and  *)
(* the start of anthropic.messages.create.                                  *)
GetSchedulingSuggestions ==
    /\ pc = "suggest"
    /\ IF ~apiKey
         THEN /\ Fail("ANTHROPIC_API_KEY not found in environment variables")
              /\ UNCHANGED request
         ELSE /\ request' = BuildRequest("strategy.yaml", events.items, now)
              /\ pc' = "oracle"
              /\ UNCHANGED <<outcome, error>>
    /\ UNCHANGED <<strategyFile, credFile, tokenFile, apiKey, now, calls, events,
                   response, suggestions, printed, answer, idx, log, returned,
                   calendar, previous>>

(* getSchedulingSuggestions, lines 176-188: JSON.parse and the check of the *)
(* top-level shape.  No element of the array is looked at.                  *)
\* (faulty variant: an empty recommendations array is rejected as well)
ParseSuggestionsNonEmpty(resp) ==
    IF resp.shape = "array" /\ resp.recs # <<>>
      THEN [threw |-> FALSE,
            value |-> [defined |-> TRUE, recommendations |-> resp.recs]]
      ELSE [threw |-> TRUE, value |-> NoSuggestions]

\* (faulty variant: the shape check is missing, any decoded object passes)
ParseSuggestionsLenient(resp) ==
    IF resp.shape \in {"absent", "falsy", "object", "array"}
      THEN [threw |-> FALSE,
            value |-> [defined |-> TRUE, recommendations |-> resp.recs]]
      ELSE [threw |-> TRUE, value |-> NoSuggestions]

ParseSuggestions(resp) ==
    IF resp.shape = "syntax"
      THEN [threw |-> TRUE, value |-> NoSuggestions]        \* JSON.parse raises
    ELSE IF resp.shape \in {"absent", "falsy"}
      THEN [threw |-> TRUE, value |-> NoSuggestions]        \* !suggestions.recommendations
    ELSE IF resp.shape # "array"
      THEN [threw |-> TRUE, value |-> NoSuggestions]        \* !Array.isArray(...)
    ELSE [threw |-> FALSE,
          value |-> [defined |-> TRUE, recommendations |-> resp.recs]]

(* getSchedulingSuggestions, lines 189-192, and main, lines 330-332: the    *)
(* outer catch logs the error and throws it again; main's catch reports it. *)
\* (faulty variant: the call is made again, up to a second time)
OracleFaultRetry(msg) ==
    IF Len(SelectSeq(calls, LAMBDA c : c.op = "oracle")) = 0
      THEN /\ pc' = "oracle"
           /\ UNCHANGED <<outcome, error>>
      ELSE Fail(msg)

OracleFault(msg) == Fail(msg)

\* what the oracle may answer: anything, and in a repeated run what it
\* answered in the earlier run
OracleResponses ==
    IF previous.defined THEN {previous.response} ELSE Responses

(* getSchedulingSuggestions, lines 159-192, and main, lines 304-321: the    *)
(* oracle call returns or raises; the response is parsed; main prints every *)
(* recommendation and asks the operator.                                    *)
OracleReturn ==
    /\ pc = "oracle"
    /\ \E ok \in BOOLEAN, t \in Later :
         /\ now' = t
         /\ calls' = Append(calls, Call("oracle", ok, t, 0, NoBody))
         /\ IF ~ok
              THEN /\ OracleFault("anthropic.messages.create failed")
                   /\ UNCHANGED <<response, suggestions, printed>>
              ELSE \E resp \in OracleResponses :
                   /\ response' = resp
                   /\ IF resp.shape = "nontext"
                        THEN /\ OracleFault("Response type is not text")
                             /\ UNCHANGED <<suggestions, printed>>
                      ELSE IF ParseSuggestions(resp).threw
                        THEN /\ OracleFault("Failed to parse scheduling suggestions")
                             /\ UNCHANGED <<suggestions, printed>>
                      ELSE /\ suggestions' = ParseSuggestions(resp).value
                           /\ printed' = Len(ParseSuggestions(resp).value.recommendations)
                           /\ pc' = "confirm"
                           /\ UNCHANGED <<outcome, error>>
    /\ UNCHANGED <<strategyFile, credFile, tokenFile, apiKey, events, answer, idx,
                   log, returned, request, calendar, previous>>

(* main, line 319: resolve(answer.toLowerCase() === 'y') *)
\* (faulty variant: any answer that begins with y is taken as yes)
ProceedOnPrefix(a) == a \in {"y", "Y", "yes"}

Proceed(a) == toLowerCase(a) = "y"

(* main, lines 316-329: the operator's answer. *)
\* (faulty variant: the calendar is read again before the actions are applied)
ConfirmRefresh ==
    /\ pc = "confirm"
    /\ \E a \in Answers, t \in Later :
         /\ now' = t
         /\ answer' = a
         /\ IF Proceed(a)
              THEN /\ pc' = "exec"
                   /\ idx' = 1
                   /\ calls' = Append(calls, Call("list", TRUE, t, 0, NoBody))
                   /\ UNCHANGED outcome
              ELSE /\ pc' = "done"
                   /\ outcome' = "cancelled"
                   /\ UNCHANGED <<idx, calls>>
    /\ UNCHANGED <<strategyFile, credFile, tokenFile, apiKey, events,
                   response, suggestions, printed, log, returned, error, request,
                   calendar, previous>>

Confirm ==
    /\ pc = "confirm"
    /\ \E a \in Answers, t \in Later :
         /\ now' = t
         /\ answer' = a
         /\ IF Proceed(a)
              THEN /\ pc' = "exec"
                   /\ idx' = 1
                   /\ UNCHANGED outcome
              ELSE /\ pc' = "done"
                   /\ outcome' = "cancelled"
                   /\ UNCHANGED idx
    /\ UNCHANGED <<strategyFile, credFile, tokenFile, apiKey, calls, events,
                   response, suggestions, printed, log, returned, error, request,
                   calendar, previous>>

---------------------------------------------------------------------------
(* executeCalendarActions, lines 215-281. *)

\* lines 225-229: the try block raises a TypeError before any calendar call:
\* destructuring null, reading .type of a missing calendarAction, or reading
\* .title of missing details
ThrowsBeforeInsert(rec) ==
    \/ rec.isNull
    \/ ~rec.hasAction
    \/ (rec.type = "CREATE" /\ ~rec.hasDetails)

\* lines 227-228, 252: the iteration calls calendar.events.insert
\* (faulty variant: MOVE is sent to the calendar like CREATE)
ReachesInsertAlsoMove(rec) ==
    ~ThrowsBeforeInsert(rec) /\ rec.type \in {"CREATE", "MOVE"}

\* (faulty variant: a CREATE whose event is already on the calendar is not sent)
ReachesInsertOnce(rec) ==
    /\ ~ThrowsBeforeInsert(rec)
    /\ rec.type = "CREATE"
    /\ ~\E k \in 1..Len(calendar) :
           /\ calendar[k].summary = rec.title
           /\ calendar[k].start = rec.startTime
           /\ calendar[k].end = rec.endTime

ReachesInsert(rec) ==
    ~ThrowsBeforeInsert(rec) /\ rec.type = "CREATE"

\* lines 231-250: the event sent to calendar.events.insert at clock t
\* (faulty variant: start and end are exchanged)
InsertBodySwapped(rec, t) ==
    [summary |-> rec.title, start |-> rec.endTime, end |-> rec.startTime,
     timeZone |-> "America/Los_Angeles", createdBy |-> "time-management-system",
     priority |-> rec.priority, timestamp |-> t]

InsertBody(rec, t) ==
    [summary |-> rec.title, start |-> rec.startTime, end |-> rec.endTime,
     timeZone |-> "America/Los_Angeles", createdBy |-> "time-management-system",
     priority |-> rec.priority, timestamp |-> t]

\* lines 224-279: the console line the iteration ends with, given the result
\* of its insert call (insertOk is not read when no call is made)
\* (faulty variant: the default branch throws instead of warning)
LineOfStrict(rec, insertOk) ==
    IF ThrowsBeforeInsert(rec) THEN "FailedToProcess"
    ELSE IF rec.type = "CREATE"
      THEN IF insertOk THEN "Created" ELSE "FailedToProcess"
    ELSE IF rec.type = "MOVE" THEN "MoveNotImplemented"
    ELSE IF rec.type = "DELETE" THEN "DeleteNotImplemented"
    ELSE "FailedToProcess"

LineOf(rec, insertOk) ==
    IF ThrowsBeforeInsert(rec) THEN "FailedToProcess"           \* line 277
    ELSE IF rec.type = "CREATE"
      THEN IF insertOk THEN "Created" ELSE "FailedToProcess"    \* lines 257, 277
    ELSE IF rec.type = "MOVE" THEN "MoveNotImplemented"         \* line 263
    ELSE IF rec.type = "DELETE" THEN "DeleteNotImplemented"     \* line 269
    ELSE "UnknownActionType"                                    \* line 274

\* lines 252-255: the insert call of an iteration, made once, whatever its
\* result; i is the index of the recommendation, t the clock when it ends
\* (faulty variant: a failed call is made a second time)
InsertCallsRetry(rec, insertOk, i, t) ==
    IF insertOk
      THEN <<Call("insert", TRUE, t, i, InsertBody(rec, now))>>
      ELSE <<Call("insert", FALSE, t, i, InsertBody(rec, now)),
             Call("insert", FALSE, t, i, InsertBody(rec, now))>>

InsertCalls(rec, insertOk, i, t) ==
    <<Call("insert", insertOk, t, i, InsertBody(rec, now))>>

\* line 277: the catch reads recommendation.title, which raises a TypeError
\* for a null recommendation; the error leaves the loop and the function
\* (faulty variant: the catch throws the error again)
CatchRethrows(rec) == TRUE

CatchRaises(rec) == rec.isNull

\* lines 223-280: one iteration of the loop
ExecStep ==
    /\ pc = "exec"
    /\ idx <= Len(suggestions.recommendations)
    /\ LET rec == suggestions.recommendations[idx] IN
       \E insertOk \in BOOLEAN, t \in Later :
         /\ ReachesInsert(rec) \/ (insertOk /\ t = now)
         /\ now' = t
         /\ calls' = IF ReachesInsert(rec)
                       THEN calls \o InsertCalls(rec, insertOk, idx, t)
                       ELSE calls
         /\ calendar' = IF ReachesInsert(rec) /\ insertOk
                          THEN Append(calendar, InsertBody(rec, now))
                          ELSE calendar
         /\ IF LineOf(rec, insertOk) = "FailedToProcess" /\ CatchRaises(rec)
              THEN /\ Fail("TypeError in catch of executeCalendarActions")
                   /\ UNCHANGED <<idx, log>>
              ELSE /\ log' = Append(log, [at |-> idx, line |-> LineOf(rec, insertOk)])
                   /\ idx' = idx + 1
                   /\ UNCHANGED <<pc, outcome, error>>
    /\ UNCHANGED <<strategyFile, credFile, tokenFile, apiKey, events, response,
                   suggestions, printed, answer, returned, request, previous>>

\* lines 280-281 and main, lines 325-326: the loop is over, the function
\* returns nothing, main prints 'Calendar updates complete!'
ExecReturn ==
    /\ pc = "exec"
    /\ idx > Len(suggestions.recommendations)
    /\ returned' = Void
    /\ pc' = "done"
    /\ outcome' = "complete"
    /\ UNCHANGED <<strategyFile, credFile, tokenFile, apiKey, now, calls, events,
                   response, suggestions, printed, answer, idx, log, error, request,
                   calendar, previous>>

Next ==
    \/ LoadStrategy
    \/ GetAuthenticatedClient
    \/ ExchangeToken
    \/ GetCalendarEvents
    \/ GetSchedulingSuggestions
    \/ OracleReturn
    \/ Confirm
    \/ ExecStep
    \/ ExecReturn

Spec == Init /\ [][Next]_vars

(* lines 337-339: the program is started again after a run that applied its *)
(* actions; the calendar keeps what the earlier run created, and the oracle *)
(* gives the same output (OracleResponses).                                 *)
Rerun ==
    /\ pc = "done"
    /\ outcome = "complete"
    /\ ~previous.defined
    /\ previous' = [defined |-> TRUE, response |-> response,
                    calendar |-> calendar]
    /\ pc' = "start"
    /\ calls' = <<>>
    /\ events' = NoItems
    /\ response' = NoResponse
    /\ suggestions' = NoSuggestions
    /\ printed' = 0
    /\ answer' = "none"
    /\ idx' = 0
    /\ log' = <<>>
    /\ returned' = NotReturned
    /\ outcome' = "running"
    /\ error' = "none"
    /\ request' = NoRequest
    /\ UNCHANGED <<strategyFile, credFile, tokenFile, apiKey, now, calendar>>

\* a run and its repetition, with the configuration in place
InitRepeat ==
    /\ Init
    /\ strategyFile /\ credFile /\ apiKey

\* (the clock is held still here: time plays no part in what is applied)
NextRepeat ==
    \/ Next /\ now' = now
    \/ Rerun

SpecRepeat == InitRepeat /\ [][NextRepeat]_vars

\* every collaborator returns or raises, so a step main waits for is taken
\* (the clock is held still here: time plays no part in how a run ends)
NextFair == Next /\ now' = now

FairSpec == Init /\ [][NextFair]_vars /\ WF_vars(NextFair)

---------------------------------------------------------------------------
(* Vocabulary of the claims. *)

Recs == suggestions.recommendations
N == Len(Recs)

\* positions in calls of the calendar write calls, and of those made for
\* the recommendation at index j
Inserts == {c \in 1..Len(calls) : calls[c].op = "insert"}
InsertsFor(j) == {c \in Inserts : calls[c].idx = j}
CallsOf(op) == {c \in 1..Len(calls) : calls[c].op = op}

\* the insert call made for recommendation j succeeded
InsertOk(j) == \A c \in InsertsFor(j) : calls[c].ok

\* ActionOutcome of the specification
Applied == [kind |-> "Applied", reason |-> "none"]
Skipped(reason) == [kind |-> "Skipped", reason |-> reason]
Failed == [kind |-> "Failed", reason |-> "error"]
Outcomes == {Applied, Skipped("not supported"), Skipped("unknown action type"),
             Failed}

\* the outcome a console line of executeCalendarActions stands for
OutcomeOf(line) ==
    CASE line = "Created" -> Applied
      [] line \in {"MoveNotImplemented", "DeleteNotImplemented"} ->
             Skipped("not supported")
      [] line = "UnknownActionType" -> Skipped("unknown action type")
      [] OTHER -> Failed

\* a recommendation that has the fields the loop reads (a non-null object
\* with a calendarAction, and details when it is a CREATE)
WellFormed(rec) ==
    ~rec.isNull /\ rec.hasAction /\ (rec.type = "CREATE" => rec.hasDetails)
IsCreate(rec) == WellFormed(rec) /\ rec.type = "CREATE"
IsMoveOrDelete(rec) == WellFormed(rec) /\ rec.type \in {"MOVE", "DELETE"}
IsUnknownType(rec) == WellFormed(rec) /\ rec.type \notin ActionTypes

\* the outcome section 4.3 of the specification gives a recommendation
ExpectedOutcome(rec, ok) ==
    IF rec.type = "CREATE" THEN (IF ok THEN Applied ELSE Failed)
    ELSE IF rec.type \in {"MOVE", "DELETE"} THEN Skipped("not supported")
    ELSE Skipped("unknown action type")

\* what the parser of section 4.2 keeps
ValidElement(rec) ==
    ~rec.isNull /\ rec.priority \in Priorities /\ rec.type \in ActionTypes

ConfigErrors == {"ENOENT: strategy.yaml",
                 "credentials.json not found in project root",
                 "ANTHROPIC_API_KEY not found in environment variables"}

---------------------------------------------------------------------------
(* C1: executeCalendarActions returns to its caller a report holding exactly *)
(* one ActionOutcome per recommendation, in input order, so the report has   *)
(* length N.                                                                 *)
C1_ReportPerRecommendation ==
    returned.done =>
        /\ Len(returned.report) = N
        /\ \A i \in 1..N : returned.report[i] \in Outcomes

C3_MalformedOutputIsFatal ==
    response.shape \in {"syntax", "absent", "falsy", "object"} =>
        /\ pc = "done"
        /\ outcome = "error"
        /\ error = "Failed to parse scheduling suggestions"
        /\ suggestions = NoSuggestions
        /\ printed = 0
        /\ Inserts = {}
        /\ log = <<>>

C3_Witness ==
    /\ response.shape = "object"
    /\ pc = "done"
    /\ CallsOf("oracle") # {}

(* C4: the parsed result is exactly the subsequence of the elements whose    *)
(* priority is HIGH, MEDIUM or LOW and whose action type is CREATE, MOVE or  *)
(* DELETE, in their original order.                                          *)
C4_ParserDropsInvalid ==
    suggestions.defined => Recs = SelectSeq(response.recs, ValidElement)

(* C5: in no run is a calendar create call made for an event whose start is  *)
(* not strictly before its end.                                              *)
C5_NoCreateWithoutDuration ==
    \A c \in Inserts : calls[c].body.start < calls[c].body.end

(* C6: a CREATE recommendation that was processed has exactly one create     *)
(* invocation, with the recommendation's title, start and end and with       *)
(* provenance metadata (origin marker, priority, timestamp); when that       *)
(* invocation succeeded the outcome is Applied.                              *)
C6_CreateApplied ==
    \A j \in 1..Len(log) :
        IsCreate(Recs[j]) =>
            /\ Cardinality(InsertsFor(j)) = 1
            /\ \A c \in InsertsFor(j) :
                 /\ calls[c].body.summary = Recs[j].title
                 /\ calls[c].body.start = Recs[j].startTime
                 /\ calls[c].body.end = Recs[j].endTime
                 /\ calls[c].body.createdBy = "time-management-system"
                 /\ calls[c].body.priority = Recs[j].priority
                 /\ calls[c].body.timestamp \in 0..calls[c].at
                 /\ calls[c].ok => OutcomeOf(log[j].line) = Applied

C6_Witness ==
    /\ Len(log) >= 1
    /\ Recs[1] = CreateRec
    /\ InsertOk(1)
    /\ log[1].line = "Created"
    /\ Cardinality(Inserts) = 1

(* C7: processing a MOVE or DELETE recommendation makes no calendar write    *)
(* call, records Skipped("not supported"), raises nothing, and the loop goes *)
(* on to the next recommendation.                                            *)
C7_MoveDeleteSkipped ==
    [][(pc = "exec" /\ idx <= N /\ IsMoveOrDelete(Recs[idx])) =>
          /\ calls' = calls
          /\ Len(log') = Len(log) + 1
          /\ log'[Len(log')].at = idx
          /\ OutcomeOf(log'[Len(log')].line) = Skipped("not supported")
          /\ pc' = "exec"
          /\ idx' = idx + 1
          /\ error' = "none"]_vars

C7_Witness ==
    /\ Len(log) = 2
    /\ Recs[1] = MoveRec
    /\ log[1].line = "MoveNotImplemented"
    /\ Inserts = {}

(* C8: processing a recommendation whose action type is none of CREATE,      *)
(* MOVE, DELETE makes no calendar write call, records                        *)
(* Skipped("unknown action type"), raises nothing, and the loop goes on to   *)
(* the next recommendation.                                                  *)
C8_UnknownTypeSkipped ==
    [][(pc = "exec" /\ idx <= N /\ IsUnknownType(Recs[idx])) =>
          /\ calls' = calls
          /\ Len(log') = Len(log) + 1
          /\ log'[Len(log')].at = idx
          /\ OutcomeOf(log'[Len(log')].line) = Skipped("unknown action type")
          /\ pc' = "exec"
          /\ idx' = idx + 1
          /\ error' = "none"]_vars

C8_Witness ==
    /\ Len(log) = 2
    /\ Recs[1] = ArchiveRec
    /\ log[1].line = "UnknownActionType"
    /\ Inserts = {}

(* C9: when a configuration error (missing ANTHROPIC_API_KEY, missing        *)
(* credentials.json, missing strategy.yaml) is raised, no calendar list      *)
(* call, no oracle call and no calendar write call has been made.            *)
C9_ConfigErrorBeforeAnyCall ==
    error \in ConfigErrors =>
        CallsOf("list") \cup CallsOf("oracle") \cup Inserts = {}

(* C10: after a failed calendar list call no oracle call and no calendar     *)
(* write call is made, and after a failed oracle call no calendar write call *)
(* is made; the run ends with an error.                                      *)
C10_ReadAndOracleFaultsFatal ==
    /\ (\E c \in CallsOf("list") : ~calls[c].ok) =>
           /\ CallsOf("oracle") = {}
           /\ Inserts = {}
           /\ pc = "done" /\ outcome = "error"
    /\ (\E c \in CallsOf("oracle") : ~calls[c].ok) =>
           /\ Inserts = {}
           /\ suggestions = NoSuggestions
           /\ pc = "done" /\ outcome = "error"

C10_Witness ==
    /\ \E c \in CallsOf("oracle") : ~calls[c].ok
    /\ \E c \in CallsOf("list") : calls[c].ok
    /\ pc = "done"

---------------------------------------------------------------------------
(* Vocabulary of the claims about the calendar and the order of calls. *)

\* what identifies an event on the calendar for a reader: title, start, end
Key(b) == <<b.summary, b.start, b.end>>
CountKey(evs, key) == Cardinality({k \in 1..Len(evs) : Key(evs[k]) = key})

\* the events the successful insert calls of this run created, in order
CreatedThisRun ==
    LET ok == SelectSeq(calls, LAMBDA c : c.op = "insert" /\ c.ok)
    IN [k \in 1..Len(ok) |-> ok[k].body]

YesAnswers == {"y", "Y"}

(* C11 (as stated): applying the same recommendation list a second time      *)
(* leaves the calendar as it was after the first: no CREATE recommendation   *)
(* of the repeated run produces an event the calendar already holds.         *)
C11_Idempotent ==
    previous.defined =>
        \A c \in Inserts :
            calls[c].ok => CountKey(previous.calendar, Key(calls[c].body)) = 0

(* C11 (amended): applying actions is not idempotent.  The calendar holds    *)
(* one event per successful create call of either run; in the repeated run   *)
(* every CREATE recommendation gets its create call again, whatever the      *)
(* calendar already holds, so an event created in both runs is there twice.  *)
C11_RepeatCreatesAgain ==
    /\ calendar = previous.calendar \o CreatedThisRun
    /\ previous.defined =>
         \A j \in 1..Len(log) :
             IsCreate(Recs[j]) =>
                 /\ Cardinality(InsertsFor(j)) = 1
                 /\ \A c \in InsertsFor(j) :
                      (calls[c].ok
                         /\ CountKey(previous.calendar, Key(calls[c].body)) > 0)
                      => CountKey(calendar, Key(calls[c].body)) >= 2

C11_Witness ==
    /\ previous.defined
    /\ returned.done
    /\ N = 1
    /\ Recs[1] = CreateRec
    /\ InsertOk(1)
    /\ CountKey(previous.calendar, <<"Light workout", 1, 2>>) = 1
    /\ CountKey(calendar, <<"Light workout", 1, 2>>) = 2

(* C12: a well-formed response with an empty recommendations array parses to *)
(* an empty list; the run then ends without error (updates complete, or      *)
(* cancelled by the operator) and makes no calendar write call.              *)
C12_EmptyIsValid ==
    response = Response("array", <<>>) =>
        /\ suggestions = [defined |-> TRUE, recommendations |-> <<>>]
        /\ error = "none"
        /\ outcome # "error"
        /\ Inserts = {}
        /\ pc \in {"confirm", "exec", "done"}
        /\ (pc = "done" /\ answer \in YesAnswers) => outcome = "complete"

C12_Witness ==
    /\ response = Response("array", <<>>)
    /\ pc = "done"
    /\ outcome = "complete"
    /\ returned.done
    /\ calls # <<>>

C15_SnapshotOnce ==
    /\ Cardinality(CallsOf("list")) <= 1
    /\ (pc = "oracle" \/ CallsOf("oracle") # {}) =>
           \E l \in CallsOf("list") : calls[l].ok
    /\ \A l \in CallsOf("list") :
           \A c \in CallsOf("oracle") \cup Inserts : l < c

C15_Witness ==
    /\ pc = "done"
    /\ outcome = "complete"
    /\ Cardinality(CallsOf("list")) = 1
    /\ Cardinality(CallsOf("oracle")) = 1
    /\ Inserts # {}

(* C16: the oracle is called at most once in a run; a failed call or an      *)
(* unparseable response ends the run, no second call follows; every calendar *)
(* write call comes after the one oracle call has returned and its response  *)
(* has been parsed.                                                          *)
C16_OracleOnce ==
    /\ Cardinality(CallsOf("oracle")) <= 1
    /\ (\E o \in CallsOf("oracle") : ~calls[o].ok) => pc = "done"
    /\ (response # NoResponse /\ ~suggestions.defined) => pc = "done"
    /\ \A c \in Inserts :
           /\ \E o \in CallsOf("oracle") : o < c /\ calls[o].ok
           /\ suggestions.defined
           /\ response.shape = "array"

C16_Witness ==
    /\ pc = "done"
    /\ error = "Failed to parse scheduling suggestions"
    /\ Cardinality(CallsOf("oracle")) = 1

(* C17: the events serialized into the oracle request hold no two entries    *)
(* with the same summary, start and end, and each entry carries only         *)
(* summary, start and end.                                                   *)
C17_SnapshotDeduplicated ==
    request.built =>
        /\ \A a, b \in 1..Len(request.events) :
               a # b => request.events[a] # request.events[b]
        /\ \A a \in 1..Len(request.events) :
               DOMAIN request.events[a] = {"summary", "start", "end"}

(* C18: no calendar write call is made unless the operator answered y or Y   *)
(* after the parsed recommendations were printed; with any other answer the  *)
(* run ends cancelled with the calendar unchanged, although the calendar     *)
(* read and the oracle call were made.                                       *)
C18_OnlyOnYes ==
    /\ (Inserts # {} \/ pc = "exec" \/ returned.done) =>
           /\ answer \in YesAnswers
           /\ suggestions.defined
           /\ printed = N
    /\ (answer # "none" /\ answer \notin YesAnswers) =>
           /\ pc = "done"
           /\ outcome = "cancelled"
           /\ Inserts = {}
           /\ calendar = <<>>
           /\ \E l \in CallsOf("list") : calls[l].ok
           /\ \E o \in CallsOf("oracle") : calls[o].ok

C18_Witness ==
    /\ answer = "yes"
    /\ pc = "done"
    /\ N = 2
    /\ IsCreate(Recs[1])

(* C19: the failure handler of the loop never raises: for every element the  *)
(* parser lets through the loop goes on, so once the operator has said yes   *)
(* and the run is over every CREATE recommendation has had its create call.  *)
C19_HandlerNeverRaises ==
    (pc = "done" /\ answer \in YesAnswers) =>
        \A j \in 1..N : IsCreate(Recs[j]) => InsertsFor(j) # {}

(* C20: every run reaches a final state (updates complete, cancelled, or     *)
(* error reported), and an error raised in any stage is reported by main.    *)
C20_RunEnds ==
    <>(/\ pc = "done"
       /\ outcome \in {"complete", "cancelled", "error"}
       /\ (outcome = "error") = (error # "none"))

C20_Witness ==
    /\ pc = "done"
    /\ outcome = "error"
    /\ error = "TypeError in catch of executeCalendarActions"
    /\ Len(log) = 1

====
